---- MODULE Spec2Model ----
(***************************************************************************)
(* A model of eadb, a minimal columnar store: the value codec and the page *)
(* file format (src/src/page.rs, src/src/main.rs), the LRU page cache and  *)
(* the collection with its typed getters and iterators (src/src/main.rs).  *)
(*                                                                         *)
(* Values.  Option<V> is <<"None">> or <<"Some", v>>.  An i64 is an        *)
(* integer; an f64 is the record of the fields of its IEEE-754 binary64    *)
(* bit pattern; a string is the sequence of its code points.  A byte is a  *)
(* number in 0..255, a Vec<u8> a sequence of bytes, a BitVec a sequence of *)
(* booleans.  Sequences are indexed from 1, the program's indices from 0.  *)
(***************************************************************************)
EXTENDS Integers, Sequences, FiniteSets, TLC

VARIABLES
    files,      \* the file system: path -> the file's bytes, or NoFile
    pc,         \* codec run: position of the encode / write / read pipeline
    values,     \* codec run: the caller's [Option<V>] handed to from_<type>
    data,       \* codec run: the PageData built by from_<type>
    meta,       \* codec run: the PageMeta of the page
    cut,        \* codec run: length the file was truncated to, or NoCut
    readback,   \* codec run: result of PageReader::read
    decoded,    \* codec run: the last get_<type>(idx) on data
    newArgs,    \* construction run: the Vec<PageMeta> handed to Collection::new
    newResult,  \* construction run: result of Collection::new
    collections,\* the constructed collections, by collection id
    cache,      \* PageCache.pages: entries <<key, page>>, most recent first
    accessed,   \* history: the keys last fetched with PageCache::get, latest first
    iter,       \* the live typed iterator, or NoIter
    yielded,    \* history: what the live iterator has returned so far
    last,       \* the last operation, its arguments and its outcome
    aborted     \* TRUE once a panic has ended the process

vars == <<files, pc, values, data, meta, cut, readback, decoded, newArgs,
          newResult, collections, cache, accessed, iter, yielded, last, aborted>>

----------------------------------------------------------------------------
(* Bounds of the model *)

MaxRows == 3          \* longest value sequence handed to an encoder
LongRows == 9         \* length of the few long Bool inputs (crosses a byte of the bitmap)
MaxPages == 2         \* most pages in one collection
MaxPageSize == 2      \* most rows in one page of a collection
SIZE == 2             \* PageCache::SIZE, the capacity of the cache (256 in the source), scaled down
NumCols == 2          \* collections that share the cache
MaxMissing == 1       \* most page files absent from the file system

----------------------------------------------------------------------------
(* Option<V> *)

None == <<"None">>
Some(v) == <<"Some", v>>
is_none(o) == o[1] = "None"
unwrap_or(o, d) == IF o[1] = "Some" THEN o[2] ELSE d

Types == {"Bool", "Int", "Float", "String"}

Min(a, b) == IF a <= b THEN a ELSE b

Zeros(n) == [i \in 1..n |-> 0]

----------------------------------------------------------------------------
(* byteorder: little-endian words *)

RECURSIVE LEBytes(_, _)
\* the n low bytes of v, least significant first; v \div 256 floors, so a
\* negative v yields its two's complement
LEBytes(v, n) ==
    IF n = 0 THEN <<>> ELSE <<v % 256>> \o LEBytes((v - (v % 256)) \div 256, n - 1)

RECURSIVE LEUnsigned(_)
LEUnsigned(bs) ==
    IF bs = <<>> THEN 0 ELSE bs[1] + 256 * LEUnsigned(Tail(bs))

write_u64(n) == LEBytes(n, 8)
read_u64(bs) == LEUnsigned(bs)

RECURSIVE LESigned(_)
\* two's complement value of a little-endian word: the top byte carries the sign
LESigned(bs) ==
    IF Len(bs) = 1
    THEN (IF bs[1] >= 128 THEN bs[1] - 256 ELSE bs[1])
    ELSE bs[1] + 256 * LESigned(Tail(bs))

write_i64(v) == LEBytes(v, 8)
read_i64(bs) == LESigned(bs)

\* an f64 is [sign, exp, frac4, fracLow]: sign bit, the 11 exponent bits, the
\* top 4 fraction bits and the 48 low fraction bits as 6 little-endian bytes
F64(s, e, f) == [sign |-> s, exp |-> e, frac4 |-> f, fracLow |-> Zeros(6)]
FloatZero == F64(0, 0, 0)

write_f64(x) ==
    x.fracLow \o <<(x.exp % 16) * 16 + x.frac4, x.sign * 128 + (x.exp \div 16)>>
read_f64(bs) ==
    [sign |-> bs[8] \div 128,
     exp |-> (bs[8] % 128) * 16 + (bs[7] \div 16),
     frac4 |-> bs[7] % 16,
     fracLow |-> SubSeq(bs, 1, 6)]

----------------------------------------------------------------------------
(* UTF-8 *)

Utf8Char(c) ==
    IF c < 128 THEN <<c>>
    ELSE IF c < 2048 THEN <<192 + (c \div 64), 128 + (c % 64)>>
    ELSE <<224 + (c \div 4096), 128 + ((c \div 64) % 64), 128 + (c % 64)>>

RECURSIVE str_bytes(_)
\* str::bytes: the UTF-8 encoding of a string
str_bytes(s) == IF s = <<>> THEN <<>> ELSE Utf8Char(s[1]) \o str_bytes(Tail(s))

IsCont(b) == b >= 128 /\ b < 192

RECURSIVE from_utf8(_)
\* String::from_utf8: <<"Ok", string>> or <<"Err">>
from_utf8(bs) ==
    IF bs = <<>> THEN <<"Ok", <<>>>>
    ELSE LET b == bs[1]
             n == IF b < 128 THEN 1
                  ELSE IF b >= 194 /\ b < 224 THEN 2
                  ELSE IF b >= 224 /\ b < 240 THEN 3
                  ELSE 0
         IN IF n = 0 \/ Len(bs) < n THEN <<"Err">>
            ELSE IF \E k \in 2..n : ~IsCont(bs[k]) THEN <<"Err">>
            ELSE LET c == IF n = 1 THEN b
                          ELSE IF n = 2 THEN (b - 192) * 64 + (bs[2] - 128)
                          ELSE (b - 224) * 4096 + (bs[2] - 128) * 64 + (bs[3] - 128)
                     rest == from_utf8(SubSeq(bs, n + 1, Len(bs)))
                 IN IF n = 3 /\ c < 2048 THEN <<"Err">>
                    ELSE IF rest[1] = "Err" THEN <<"Err">>
                    ELSE <<"Ok", <<c>> \o rest[2]>>

----------------------------------------------------------------------------
(* bitvec: BitVec<LittleEndian, u8> *)

Pow2(k) == CASE k = 0 -> 1 [] k = 1 -> 2 [] k = 2 -> 4 [] k = 3 -> 8
             [] k = 4 -> 16 [] k = 5 -> 32 [] k = 6 -> 64 [] k = 7 -> 128

RECURSIVE BitSum(_, _, _)
\* the byte holding bits 8j+k .. 8j+7 of a BitVec, bit i at value 2^(i mod 8);
\* bits past the end are the zeroes push left in the element
BitSum(bits, j, k) ==
    IF k > 7 THEN 0
    ELSE (IF 8 * j + k + 1 <= Len(bits) /\ bits[8 * j + k + 1] THEN Pow2(k) ELSE 0)
         + BitSum(bits, j, k + 1)

\* BitVec::as_slice: the backing bytes, ceil(len / 8) of them
as_slice(bits) == [j \in 1..((Len(bits) + 7) \div 8) |-> BitSum(bits, j - 1, 0)]

\* BitVec::from_slice: every bit of every byte, 8 * len(bytes) of them
from_slice(bytes) ==
    [i \in 1..(8 * Len(bytes)) |->
        ((bytes[((i - 1) \div 8) + 1] \div Pow2((i - 1) % 8)) % 2) = 1]

----------------------------------------------------------------------------
(* PageData: the encoders *)

PageData(bytes, nulls, offsets, typ) ==
    [bytes |-> bytes, nulls |-> nulls, offsets |-> offsets, typ |-> typ]

from_bools(d) ==
    LET bits == [i \in 1..Len(d) |-> unwrap_or(d[i], FALSE)]
        nulls == [i \in 1..Len(d) |-> is_none(d[i])]
    IN PageData(as_slice(bits), nulls, <<>>, "Bool")

RECURSIVE IntBytes(_)
IntBytes(d) ==
    IF d = <<>> THEN <<>> ELSE write_i64(unwrap_or(d[1], 0)) \o IntBytes(Tail(d))

from_ints(d) ==
    PageData(IntBytes(d), [i \in 1..Len(d) |-> is_none(d[i])], <<>>, "Int")

RECURSIVE FloatBytes(_)
FloatBytes(d) ==
    IF d = <<>> THEN <<>> ELSE write_f64(unwrap_or(d[1], FloatZero)) \o FloatBytes(Tail(d))

from_floats(d) ==
    PageData(FloatBytes(d), [i \in 1..Len(d) |-> is_none(d[i])], <<>>, "Float")

RECURSIVE StringBytes(_)
StringBytes(d) ==
    IF d = <<>> THEN <<>> ELSE str_bytes(unwrap_or(d[1], <<>>)) \o StringBytes(Tail(d))

\* value.len(): the length of a string in bytes
str_len(s) == Len(str_bytes(s))

RECURSIVE StringOffsets_chars(_, _)
\* mutant: the offset advances by the characters of the value, not its bytes
StringOffsets_chars(d, offset) ==
    IF d = <<>> THEN <<offset>>
    ELSE <<offset>> \o StringOffsets_chars(Tail(d), offset + Len(unwrap_or(d[1], <<>>)))

RECURSIVE StringOffsets(_, _)
\* the loop of from_strings: push the running offset, then advance it
StringOffsets(d, offset) ==
    IF d = <<>> THEN <<offset>>
    ELSE <<offset>> \o StringOffsets(Tail(d), offset + str_len(unwrap_or(d[1], <<>>)))

from_strings(d) ==
    PageData(StringBytes(d), [i \in 1..Len(d) |-> is_none(d[i])],
             StringOffsets(d, 0), "String")

\* PageData::len
PageData_len(pd) == Len(pd.nulls)

----------------------------------------------------------------------------
(* PageData: the positional readers.  A result is an Option, or <<"panic">>  *)
(* where the code indexes out of bounds or unwraps a failure.               *)

Panic == <<"panic">>

\* Vec::get(a..b) with 0-based half-open range: <<"Some", slice>> or None
slice_get(bytes, a, b) ==
    IF a <= b /\ b <= Len(bytes) THEN Some(SubSeq(bytes, a + 1, b)) ELSE None

PageData_get_bool(pd, idx) ==
    IF idx >= Len(pd.nulls) THEN Panic
    ELSE IF pd.nulls[idx + 1] THEN None
    ELSE LET bits == from_slice(pd.bytes)
         IN IF idx < Len(bits) THEN Some(bits[idx + 1]) ELSE None

PageData_get_int(pd, idx) ==
    IF idx >= Len(pd.nulls) THEN Panic
    ELSE IF pd.nulls[idx + 1] THEN None
    ELSE LET slice == slice_get(pd.bytes, idx * 8, (idx + 1) * 8)
         IN IF is_none(slice) THEN Panic ELSE Some(read_i64(slice[2]))

PageData_get_float(pd, idx) ==
    IF idx >= Len(pd.nulls) THEN Panic
    ELSE IF pd.nulls[idx + 1] THEN None
    ELSE LET slice == slice_get(pd.bytes, idx * 8, (idx + 1) * 8)
         IN IF is_none(slice) THEN Panic ELSE Some(read_f64(slice[2]))

PageData_get_string(pd, idx) ==
    IF idx >= Len(pd.nulls) THEN Panic
    ELSE IF pd.nulls[idx + 1] THEN None
    ELSE IF idx + 2 > Len(pd.offsets) THEN Panic
    ELSE LET slice == slice_get(pd.bytes, pd.offsets[idx + 1], pd.offsets[idx + 2])
         IN IF is_none(slice) THEN Panic
            ELSE LET str == from_utf8(slice[2])
                 IN IF str[1] = "Err" THEN Panic ELSE Some(str[2])

----------------------------------------------------------------------------
(* PageMeta and Page *)

\* a file system entry: no file, or a file and its bytes
NoFile == [exists |-> FALSE, bytes |-> <<>>]
File(bs) == [exists |-> TRUE, bytes |-> bs]

\* PageMeta::new; the Uuid of a page is modelled by its path, which the
\* model never shares between two pages
PageMeta_new(typ, path, offset, size) ==
    [id |-> path, offset |-> offset, path |-> path, size |-> size, typ |-> typ]

Page_new(m, pd) == [data |-> pd, meta |-> m]

Page_get_bool(page, idx) ==
    IF page.meta.typ # "Bool" THEN Panic ELSE PageData_get_bool(page.data, idx)
Page_get_int(page, idx) ==
    IF page.meta.typ # "Int" THEN Panic ELSE PageData_get_int(page.data, idx)
Page_get_float(page, idx) ==
    IF page.meta.typ # "Float" THEN Panic ELSE PageData_get_float(page.data, idx)
Page_get_string(page, idx) ==
    IF page.meta.typ # "String" THEN Panic ELSE PageData_get_string(page.data, idx)

----------------------------------------------------------------------------
(* snap: the Snappy frame format, as far as the page format depends on it. *)
(* A stream is the stream identifier followed by chunks; a chunk is a type *)
(* byte, a 3-byte length, a 4-byte checksum and the payload.  The model    *)
(* writes every buffer as one uncompressed chunk and stands a byte sum in  *)
(* for the CRC.  A writer that was handed no bytes writes nothing.         *)

StreamIdent == <<255, 6, 0, 0, 115, 78, 97, 80, 112, 89>>

RECURSIVE ByteSum(_)
ByteSum(bs) == IF bs = <<>> THEN 0 ELSE (bs[1] + ByteSum(Tail(bs))) % 256

Checksum(bs) == <<ByteSum(bs), 0, 0, 0>>

\* snap::Writer: write_all(bytes), then the flush on drop
snap_write(bytes) ==
    IF bytes = <<>> THEN <<>>
    ELSE StreamIdent \o <<1>> \o LEBytes(Len(bytes) + 4, 3) \o Checksum(bytes) \o bytes

RECURSIVE snap_chunks(_)
snap_chunks(bs) ==
    IF bs = <<>> THEN <<"Ok", <<>>>>
    ELSE IF Len(bs) < 4 THEN <<"Err">>
    ELSE LET len == LEUnsigned(SubSeq(bs, 2, 4))
         IN IF bs[1] # 1 \/ len < 4 \/ Len(bs) < 4 + len THEN <<"Err">>
            ELSE LET sum == SubSeq(bs, 5, 8)
                     payload == SubSeq(bs, 9, 4 + len)
                     rest == snap_chunks(SubSeq(bs, 5 + len, Len(bs)))
                 IN IF sum # Checksum(payload) \/ rest[1] = "Err" THEN <<"Err">>
                    ELSE <<"Ok", payload \o rest[2]>>

\* snap::Reader + read_to_end: <<"Ok", bytes>> or <<"Err">>
snap_read(bs) ==
    IF bs = <<>> THEN <<"Ok", <<>>>>
    ELSE IF Len(bs) < Len(StreamIdent) \/ SubSeq(bs, 1, Len(StreamIdent)) # StreamIdent
    THEN <<"Err">>
    ELSE snap_chunks(SubSeq(bs, Len(StreamIdent) + 1, Len(bs)))

----------------------------------------------------------------------------
(* std::fs::File *)

\* Read::read into a zeroed buffer of n bytes at position pos: as many bytes
\* as the file still has, at most n; the rest of the buffer keeps its zeroes
file_read(f, pos, n) ==
    LET k == Min(n, Len(f) - pos)
    IN [buf |-> SubSeq(f, pos + 1, pos + k) \o Zeros(n - k), pos |-> pos + k]

\* slice::chunks(8) mapped through read_u64
read_words(bs) == [i \in 1..(Len(bs) \div 8) |-> read_u64(SubSeq(bs, 8 * i - 7, 8 * i))]

----------------------------------------------------------------------------
(* Page file format: writer *)

write_nulls(pd) ==
    LET nulls_slice == as_slice(pd.nulls)
    IN write_u64(Len(nulls_slice)) \o nulls_slice

RECURSIVE write_offsets(_)
write_offsets(offsets) ==
    IF offsets = <<>> THEN <<>> ELSE write_u64(offsets[1]) \o write_offsets(Tail(offsets))

\* the bytes PageWriter::write leaves in the created file
page_file(pd) == write_nulls(pd) \o write_offsets(pd.offsets) \o snap_write(pd.bytes)

\* page.rs PageWriter::write(page): the file system after the call
PageWriter_write(page, fs) == [fs EXCEPT ![page.meta.path] = File(page_file(page.data))]

\* main.rs PageWriter::write(path, offset, data): the new PageMeta and the
\* file system after the call
main_PageWriter_write(path, offset, pd, fs) ==
    [meta |-> PageMeta_new(pd.typ, path, offset, PageData_len(pd)),
     files |-> [fs EXCEPT ![path] = File(page_file(pd))]]

----------------------------------------------------------------------------
(* Page file format: reader *)

\* main.rs PageMeta::load_page: <<"Ok", PageData>> or <<"Err", kind>>
load_page(m, fs) ==
    IF ~fs[m.path].exists THEN <<"Err", "NotFound">>
    ELSE LET file == fs[m.path].bytes
             size_bytes == file_read(file, 0, 8)
             size == read_u64(size_bytes.buf)
             null_bytes == file_read(file, size_bytes.pos, size)
             nulls == from_slice(null_bytes.buf)
             offset_bytes == IF m.typ = "String"
                             THEN file_read(file, null_bytes.pos, (m.size + 1) * 8)
                             ELSE [buf |-> <<>>, pos |-> null_bytes.pos]
             offsets == read_words(offset_bytes.buf)
             bytes == snap_read(SubSeq(file, offset_bytes.pos + 1, Len(file)))
         IN IF bytes[1] = "Err" THEN <<"Err", "InvalidData">>
            ELSE <<"Ok", PageData(bytes[2], nulls, offsets, m.typ)>>

\* page.rs PageReader::read: <<"Ok", Page>> or <<"Err", kind>>
PageReader_read(m, fs) ==
    IF ~fs[m.path].exists THEN <<"Err", "NotFound">>
    ELSE LET file == fs[m.path].bytes
             size_bytes == file_read(file, 0, 8)
             size == read_u64(size_bytes.buf)
             null_bytes == file_read(file, size_bytes.pos, size)
             nulls == from_slice(null_bytes.buf)
             offset_bytes == IF m.typ = "String"
                             THEN file_read(file, null_bytes.pos, (m.size + 1) * 8)
                             ELSE [buf |-> <<>>, pos |-> null_bytes.pos]
             offsets == read_words(offset_bytes.buf)
             bytes == snap_read(SubSeq(file, offset_bytes.pos + 1, Len(file)))
         IN IF bytes[1] = "Err" THEN <<"Err", "InvalidData">>
            ELSE <<"Ok", Page_new(m, PageData(bytes[2], nulls, offsets, m.typ))>>

----------------------------------------------------------------------------
(* Dispatch on the type tag, as the callers choose from_<type> and get_<type> *)

Encode(typ, d) ==
    CASE typ = "Bool" -> from_bools(d)
      [] typ = "Int" -> from_ints(d)
      [] typ = "Float" -> from_floats(d)
      [] typ = "String" -> from_strings(d)

PageData_get(typ, pd, idx) ==
    CASE typ = "Bool" -> PageData_get_bool(pd, idx)
      [] typ = "Int" -> PageData_get_int(pd, idx)
      [] typ = "Float" -> PageData_get_float(pd, idx)
      [] typ = "String" -> PageData_get_string(pd, idx)

Page_get(typ, page, idx) ==
    CASE typ = "Bool" -> Page_get_bool(page, idx)
      [] typ = "Int" -> Page_get_int(page, idx)
      [] typ = "Float" -> Page_get_float(page, idx)
      [] typ = "String" -> Page_get_string(page, idx)

----------------------------------------------------------------------------
(* The inputs the model draws *)

BoolVals == BOOLEAN
IntVals == {-1, 0, 300}
FloatVals == {FloatZero, F64(0, 1023, 8), F64(1, 1024, 0)}   \* 0.0, 1.5, -2.0
StrVals == {<<>>, <<97>>, <<233, 98>>}                       \* "", "a", "éb"

Vals(typ) ==
    CASE typ = "Bool" -> BoolVals
      [] typ = "Int" -> IntVals
      [] typ = "Float" -> FloatVals
      [] typ = "String" -> StrVals

Options(V) == {None} \cup {Some(v) : v \in V}

SeqsUpTo(S, n) == UNION {[1..k -> S] : k \in 0..n}

\* a few Bool inputs long enough to need a second byte of bits
LongBools ==
    {[i \in 1..LongRows |-> None],
     [i \in 1..LongRows |-> Some(TRUE)],
     [i \in 1..LongRows |-> IF i % 3 = 0 THEN None ELSE Some(i % 3 = 1)],
     [i \in 1..LongRows |-> IF i = LongRows THEN Some(TRUE) ELSE Some(FALSE)]}

Inputs(typ) ==
    SeqsUpTo(Options(Vals(typ)), MaxRows) \cup (IF typ = "Bool" THEN LongBools ELSE {})

----------------------------------------------------------------------------
(* Paths.  Path 0 holds the page of the codec run; page j of collection c  *)
(* lives at PagePath(c, j).                                                *)

PagePath(c, j) == (c - 1) * (MaxPages + 1) + j
CodecPath == PagePath(1, 0)
Paths == 0..(NumCols * (MaxPages + 1))

NoCut == 0 - 1
NoDecode == <<"NoDecode">>
NoRead == <<"NoRead">>
NoData == <<"NoData">>
NoIter == [idx |-> -1, collection |-> 0]
NoKey == <<0, 0>>
NoYield == [items |-> <<>>, done |-> FALSE, restarted |-> FALSE]
NoOp == [op |-> "none", col |-> 0, idx |-> 0, typ |-> "", key |-> NoKey,
         out |-> <<"none">>, loaded |-> FALSE]
NoNew == <<"NoNew">>

\* the variables of the collection and cache run, at rest
CollIdle ==
    /\ collections = <<>>
    /\ cache = <<>>
    /\ accessed = <<>>
    /\ iter = NoIter
    /\ yielded = NoYield
    /\ last = NoOp
    /\ aborted = FALSE

NewIdle ==
    /\ newArgs = <<>>
    /\ newResult = NoNew

CodecIdle ==
    /\ pc = "idle"
    /\ values = <<>>
    /\ data = NoData
    /\ meta = NoData
    /\ cut = NoCut
    /\ readback = NoRead
    /\ decoded = NoDecode

collVars == <<collections, cache, accessed, iter, yielded, last, aborted>>
newVars == <<newArgs, newResult>>
codecVars == <<pc, values, data, meta, cut, readback, decoded>>

----------------------------------------------------------------------------
(* The codec run: a caller encodes a value sequence, decodes positions of  *)
(* it, writes the page to its file and reads it back; the file may lose    *)
(* its tail between the write and the read.                                *)

InitCodec ==
    /\ \E typ \in Types : \E d \in Inputs(typ) :
          /\ values = d
          /\ meta = PageMeta_new(typ, CodecPath, 0, Len(d))
    /\ pc = "start"
    /\ data = NoData
    /\ cut = NoCut
    /\ readback = NoRead
    /\ decoded = NoDecode
    /\ files = [p \in Paths |-> NoFile]
    /\ CollIdle
    /\ NewIdle

\* PageData::from_<type>(values)
EncodeValues ==
    /\ pc = "start"
    /\ data' = Encode(meta.typ, values)
    /\ pc' = "encoded"
    /\ UNCHANGED <<files, values, meta, cut, readback, decoded, collVars, newVars>>

\* PageData::get_<type>(idx) on the encoded data
DecodeAt(idx) ==
    /\ pc = "encoded"
    /\ decoded' = [idx |-> idx, out |-> PageData_get(meta.typ, data, idx)]
    /\ pc' = "decoded"
    /\ UNCHANGED <<files, values, data, meta, cut, readback, collVars, newVars>>

\* PageWriter::write(&Page::new(&meta, data))
WritePage ==
    /\ pc = "encoded"
    /\ files' = PageWriter_write(Page_new(meta, data), files)
    /\ pc' = "written"
    /\ UNCHANGED <<values, data, meta, cut, readback, decoded, collVars, newVars>>

\* the environment: the file is cut down to its first n bytes
Truncate(n) ==
    /\ pc = "written"
    /\ cut = NoCut
    /\ n < Len(files[CodecPath].bytes)
    /\ files' = [files EXCEPT ![CodecPath] = File(SubSeq(@.bytes, 1, n))]
    /\ cut' = n
    /\ UNCHANGED <<pc, values, data, meta, readback, decoded, collVars, newVars>>

\* PageReader::read(&meta)
ReadPage ==
    /\ pc = "written"
    /\ readback' = PageReader_read(meta, files)
    /\ pc' = "read"
    /\ UNCHANGED <<files, values, data, meta, cut, decoded, collVars, newVars>>

MaxFileLen == 8 + 2 + 8 * (MaxRows + 1) + 18 + 8 * MaxRows + 3 * MaxRows

NextCodec ==
    \/ EncodeValues
    \/ \E idx \in 0..LongRows : idx <= Len(values) /\ DecodeAt(idx)
    \/ WritePage
    \/ \E n \in 0..MaxFileLen : Truncate(n)
    \/ ReadPage

SpecCodec == InitCodec /\ [][NextCodec]_vars

----------------------------------------------------------------------------
(* lru: LruCache<PageKey, Page>, a sequence of <<key, page>> entries with  *)
(* the most recently used entry first                                      *)

KeysOf(c) == [i \in 1..Len(c) |-> c[i][1]]
KeySet(c) == {c[i][1] : i \in 1..Len(c)}

\* LruCache::contains: membership, the order is left alone
Lru_contains(c, key) == key \in KeySet(c)

Without(c, key) == SelectSeq(c, LAMBDA e : e[1] # key)

\* mutant: put never evicts
Lru_put_noevict(c, key, page) ==
    IF key \in KeySet(c) THEN <<<<key, page>>>> \o Without(c, key)
    ELSE <<<<key, page>>>> \o c

\* LruCache::put: a present key is updated and becomes the most recent; an
\* absent key is inserted as the most recent, at capacity in place of the
\* least recently used entry
Lru_put(c, key, page) ==
    IF Lru_contains(c, key) THEN <<<<key, page>>>> \o Without(c, key)
    ELSE IF Len(c) = SIZE THEN <<<<key, page>>>> \o SubSeq(c, 1, Len(c) - 1)
    ELSE <<<<key, page>>>> \o c

\* mutant: the entry is matched on the page number alone
Lru_get_any_collection(c, key) ==
    LET e == CHOOSE x \in {c[i] : i \in 1..Len(c)} : x[1][2] = key[2]
    IN [page |-> e[2], cache |-> <<e>> \o Without(c, key)]

\* mutant: get returns the entry and leaves the order alone
Lru_get_nomove(c, key) ==
    LET e == CHOOSE x \in {c[i] : i \in 1..Len(c)} : x[1] = key
    IN [page |-> e[2], cache |-> c]

\* LruCache::get on a present key: the entry becomes the most recent
Lru_get(c, key) ==
    LET e == CHOOSE x \in {c[i] : i \in 1..Len(c)} : x[1] = key
    IN [page |-> e[2], cache |-> <<e>> \o Without(c, key)]

----------------------------------------------------------------------------
(* PageCache *)

\* PageCache::new
PageCache_new == <<>>

\* the end of PageCache::get: Ok(self.pages.get(key).unwrap())
cache_return(g, loaded) == [res |-> <<"Ok", g.page>>, cache |-> g.cache, loaded |-> loaded]

\* the miss branch of PageCache::get once load_page has returned loadedData:
\* `?` returns the error, else the page is put and then fetched
cache_miss(c, key, m, loadedData) ==
    IF loadedData[1] = "Err"
    THEN [res |-> loadedData, cache |-> c, loaded |-> TRUE]
    ELSE cache_return(Lru_get(Lru_put(c, key, Page_new(m, loadedData[2])), key), TRUE)

\* mutant: a miss makes room before it loads
PageCache_get_evict_first(c, key, m, fs) ==
    IF ~Lru_contains(c, key)
    THEN cache_miss(IF Len(c) = SIZE THEN SubSeq(c, 1, Len(c) - 1) ELSE c,
                    key, m, load_page(m, fs))
    ELSE cache_return(Lru_get(c, key), FALSE)

\* PageCache::get(key, meta): the result, the cache after the call, and
\* whether load_page ran
PageCache_get(c, key, m, fs) ==
    IF ~Lru_contains(c, key)
    THEN cache_miss(c, key, m, load_page(m, fs))
    ELSE cache_return(Lru_get(c, key), FALSE)

----------------------------------------------------------------------------
(* Collection *)

RECURSIVE SumSizes(_)
SumSizes(ms) == IF ms = <<>> THEN 0 ELSE ms[1].size + SumSizes(Tail(ms))

\* mutant: the type of the first page is taken, the others are not looked at
Collection_new_first(id, ms) ==
    IF ms = <<>> THEN Panic
    ELSE <<"Ok", [id |-> id,
                  page_metas |-> [j \in 1..Len(ms) |-> [key |-> <<id, j - 1>>, meta |-> ms[j]]],
                  size |-> SumSizes(ms),
                  typ |-> ms[1].typ]>>

\* Collection::new(page_metas) with the fresh Uuid id: <<"Ok", collection>>,
\* or Panic when the assertion on the set of types fails.  page_metas is the
\* BTreeMap in key order: entry j holds key (id, j - 1).
Collection_new(id, ms) ==
    LET types == {ms[i].typ : i \in 1..Len(ms)}
    IN IF Cardinality(types) # 1 THEN Panic
       ELSE <<"Ok", [id |-> id,
                     page_metas |-> [j \in 1..Len(ms) |-> [key |-> <<id, j - 1>>, meta |-> ms[j]]],
                     size |-> SumSizes(ms),
                     typ |-> CHOOSE t \in types : TRUE]>>

\* Collection::find_page: the first page, in key order, whose range
\* [key.1 * size, key.1 * size + size) holds idx, fetched through the cache.
\* out is the returned Option, or Panic when the expect on the fetch fails;
\* key is the key handed to the cache, fetched whether the cache returned Ok.
page_found(r, key, offset) ==
    IF r.res[1] = "Err"
    THEN [out |-> Panic, cache |-> r.cache, loaded |-> r.loaded, key |-> key,
          fetched |-> FALSE]
    ELSE [out |-> Some(<<r.res[2], offset>>), cache |-> r.cache,
          loaded |-> r.loaded, key |-> key, fetched |-> TRUE]

\* mutant: the upper end of the range is taken in
in_page_inclusive(e, idx) ==
    idx >= e.key[2] * e.meta.size /\ idx <= e.key[2] * e.meta.size + e.meta.size

\* the range test of find_page on entry e of page_metas
in_page(e, idx) ==
    idx >= e.key[2] * e.meta.size /\ idx < e.key[2] * e.meta.size + e.meta.size

first_page(e, c, idx, fs) ==
    page_found(PageCache_get(c, e.key, e.meta, fs), e.key, e.key[2] * e.meta.size)

find_page(col, c, idx, fs) ==
    IF \A j \in 1..Len(col.page_metas) : ~in_page(col.page_metas[j], idx)
    THEN [out |-> None, cache |-> c, loaded |-> FALSE, key |-> NoKey, fetched |-> FALSE]
    ELSE first_page(col.page_metas[CHOOSE j \in 1..Len(col.page_metas) :
                                      /\ in_page(col.page_metas[j], idx)
                                      /\ \A k \in 1..(j - 1) : ~in_page(col.page_metas[k], idx)],
                    c, idx, fs)

\* .and_then(|(page, offset)| page.get_<type>(idx - offset)) on what
\* find_page returned
and_then(f, typ, idx) ==
    [out |-> IF f.out[1] = "Some"
             THEN Page_get(typ, f.out[2][1], idx - f.out[2][2])
             ELSE f.out,
     cache |-> f.cache, loaded |-> f.loaded, key |-> f.key, fetched |-> f.fetched]

\* Collection::get_<type>(cache, idx)
Collection_get(typ, col, c, idx, fs) == and_then(find_page(col, c, idx, fs), typ, idx)

\* Collection<Type>Iter::new
CollectionIter_new(c) == [idx |-> 0, collection |-> c]

----------------------------------------------------------------------------
(* The collection run: pages were written with PageWriter::write and       *)
(* grouped into collections that share one PageCache, as main does; then   *)
(* values are fetched by index, pages are fetched from the cache, and      *)
(* collections are scanned by iterators.  A page file may be absent.       *)

\* the type of collection c
ColTyp(c) == <<"Int", "String", "Bool", "Float">>[((c - 1) % 4) + 1]

\* the value the scenario stores at row r (from 1) of page j (from 1) of collection c
ValueOf(typ, c, j, r) ==
    CASE typ = "Int" -> 100 * c + 10 * j + r
      [] typ = "String" -> <<96 + j, 233, 96 + r>>
      [] typ = "Bool" -> (j + r) % 2 = 0
      [] typ = "Float" -> F64(0, 1023 + j, r)

\* the rows of that page when it has s rows: every second row is null
Rows(c, j, s) ==
    [r \in 1..s |-> IF r % 2 = 0 THEN None ELSE Some(ValueOf(ColTyp(c), c, j, r))]

\* the page sizes of a collection, in page order
Shapes == UNION {[1..n -> 1..MaxPageSize] : n \in 1..MaxPages}

\* collection 1 takes every shape; the collections that share the cache
\* with it have this one
OtherShape == <<1, 1>>

RECURSIVE SumTo(_, _)
SumTo(shape, j) == IF j = 0 THEN 0 ELSE shape[j] + SumTo(shape, j - 1)

\* PageWriter::write of page j of collection c onto an empty file system
Written(c, j, shape) ==
    main_PageWriter_write(PagePath(c, j), SumTo(shape, j - 1),
                          Encode(ColTyp(c), Rows(c, j, shape[j])),
                          [p \in Paths |-> NoFile])

Init ==
    /\ \E shapes \in {sh \in [1..NumCols -> Shapes] : \A c \in 2..NumCols : sh[c] = OtherShape} :
       \E missing \in SUBSET Paths :
          /\ Cardinality(missing) <= MaxMissing
          /\ \A p \in missing : \E c \in 1..NumCols : \E j \in 1..Len(shapes[c]) : p = PagePath(c, j)
          /\ files = [p \in Paths |->
                        IF p \notin missing /\ \E c \in 1..NumCols : \E j \in 1..Len(shapes[c]) : p = PagePath(c, j)
                        THEN LET c == CHOOSE c \in 1..NumCols : \E j \in 1..Len(shapes[c]) : p = PagePath(c, j)
                                 j == CHOOSE j \in 1..Len(shapes[c]) : p = PagePath(c, j)
                             IN Written(c, j, shapes[c]).files[p]
                        ELSE NoFile]
          /\ collections = [c \in 1..NumCols |->
                Collection_new(c, [j \in 1..Len(shapes[c]) |-> Written(c, j, shapes[c]).meta])[2]]
    /\ cache = PageCache_new
    /\ accessed = <<>>
    /\ iter = NoIter
    /\ yielded = NoYield
    /\ last = NoOp
    /\ aborted = FALSE
    /\ CodecIdle
    /\ NewIdle

\* history: key becomes the most recently fetched key; the history keeps
\* the SIZE + 1 most recently fetched keys
Touch(a, key) ==
    LET b == <<key>> \o SelectSeq(a, LAMBDA k : k # key)
    IN SubSeq(b, 1, Min(Len(b), SIZE + 1))

\* collection.get_<typ>(cache, idx), for the type of the collection
Get(c, idx) ==
    /\ ~aborted
    /\ \E r \in {Collection_get(collections[c].typ, collections[c], cache, idx, files)} :
          /\ cache' = r.cache
          /\ accessed' = IF r.fetched THEN Touch(accessed, r.key) ELSE accessed
          /\ last' = [op |-> "get", col |-> c, idx |-> idx, typ |-> collections[c].typ,
                      key |-> r.key, out |-> r.out, loaded |-> r.loaded]
          /\ aborted' = (r.out = Panic)
    /\ iter' = NoIter
    /\ yielded' = NoYield
    /\ UNCHANGED <<files, collections, codecVars, newVars>>

\* cache.get(key, meta) for page j (from 0) of collection c
CacheGet(c, j) ==
    /\ ~aborted
    /\ j < Len(collections[c].page_metas)
    /\ \E e \in {collections[c].page_metas[j + 1]} :
       \E r \in {PageCache_get(cache, e.key, e.meta, files)} :
          /\ cache' = r.cache
          /\ accessed' = IF r.res[1] = "Ok" THEN Touch(accessed, e.key) ELSE accessed
          /\ last' = [op |-> "cache_get", col |-> c, idx |-> j, typ |-> e.meta.typ,
                      key |-> e.key, out |-> <<r.res[1]>>, loaded |-> r.loaded]
    /\ iter' = NoIter
    /\ yielded' = NoYield
    /\ UNCHANGED <<files, collections, aborted, codecVars, newVars>>

\* collection.<typ>_iter(cache), for the type of the collection
IterNew(c) ==
    /\ ~aborted
    /\ iter' = CollectionIter_new(c)
    /\ yielded' = [items |-> <<>>, done |-> FALSE,
                   restarted |-> yielded.items # <<>>]
    /\ last' = [NoOp EXCEPT !.op = "iter", !.col = c]
    /\ UNCHANGED <<files, collections, cache, accessed, aborted, codecVars, newVars>>

\* the tail of next: self.idx += 1; Some(entry)
next_entry(it, r) ==
    [iter |-> [it EXCEPT !.idx = @ + 1], ret |-> Some(r.out),
     cache |-> r.cache, key |-> r.key, loaded |-> r.loaded, fetched |-> r.fetched]

\* mutant: the end test is one row early
CollectionIter_next_early(it, col, c, fs) ==
    IF it.idx + 1 >= col.size
    THEN [iter |-> it, ret |-> None, cache |-> c, key |-> NoKey, loaded |-> FALSE,
          fetched |-> FALSE]
    ELSE next_entry(it, Collection_get(col.typ, col, c, it.idx, fs))

\* Collection<Type>Iter::next on an iterator over collection col: the
\* iterator after the call, what it returned (None at the end, else
\* Some(entry)), and the cache after the call
CollectionIter_next(it, col, c, fs) ==
    IF it.idx = col.size
    THEN [iter |-> it, ret |-> None, cache |-> c, key |-> NoKey, loaded |-> FALSE,
          fetched |-> FALSE]
    ELSE next_entry(it, Collection_get(col.typ, col, c, it.idx, fs))

IterNext ==
    /\ ~aborted
    /\ iter # NoIter
    /\ \E n \in {CollectionIter_next(iter, collections[iter.collection], cache, files)} :
       \E panicked \in {n.ret[1] = "Some" /\ n.ret[2] = Panic} :
          /\ cache' = n.cache
          /\ accessed' = IF n.fetched THEN Touch(accessed, n.key) ELSE accessed
          /\ aborted' = panicked
          /\ iter' = IF panicked THEN iter ELSE n.iter
          /\ yielded' = IF panicked THEN yielded
                        ELSE IF n.ret = None THEN [yielded EXCEPT !.done = TRUE]
                        ELSE [yielded EXCEPT !.items = Append(@, n.ret[2])]
          /\ last' = [op |-> "next", col |-> iter.collection, idx |-> iter.idx,
                      typ |-> collections[iter.collection].typ, key |-> n.key,
                      out |-> n.ret, loaded |-> n.loaded]
    /\ UNCHANGED <<files, collections, codecVars, newVars>>

Next ==
    \/ \E c \in 1..NumCols : \E idx \in 0..(MaxPages * MaxPageSize + 1) :
          idx <= collections[c].size + 1 /\ Get(c, idx)
    \/ \E c \in 1..NumCols : \E j \in 0..(MaxPages - 1) : CacheGet(c, j)
    \/ \E c \in 1..NumCols : IterNew(c)
    \/ IterNext

Spec == Init /\ [][Next]_vars

----------------------------------------------------------------------------
(* The construction run: a caller hands Collection::new a list of metas of *)
(* any types                                                               *)

\* the lists of PageMeta a caller can build: any type and size per page
MetaLists ==
    UNION {{[j \in 1..n |-> PageMeta_new(ts[j], PagePath(1, j), 0, ss[j])] :
                ts \in [1..n -> Types], ss \in [1..n -> 0..MaxPageSize]} : n \in 0..MaxPages}

InitNew ==
    /\ newArgs \in MetaLists
    /\ newResult = NoNew
    /\ files = [p \in Paths |-> NoFile]
    /\ CollIdle
    /\ CodecIdle

\* Collection::new(page_metas)
CollectionNew ==
    /\ newResult = NoNew
    /\ newResult' = Collection_new(1, newArgs)
    /\ UNCHANGED <<files, newArgs, collVars, codecVars>>

NextNew == CollectionNew

SpecNew == InitNew /\ [][NextNew]_vars

----------------------------------------------------------------------------
(* Claims *)

\* the rows of collection c as the scenario wrote them, in page order
RECURSIVE RowsUpTo(_, _)
RowsUpTo(c, n) ==
    IF n = 0 THEN <<>>
    ELSE RowsUpTo(c, n - 1) \o Rows(c, n, collections[c].page_metas[n].meta.size)

AllRows(c) == RowsUpTo(c, Len(collections[c].page_metas))

\* every page file of collection c is present
Intact(c) ==
    \A j \in 1..Len(collections[c].page_metas) :
        files[collections[c].page_metas[j].meta.path].exists

\* C1: in a collection whose page files are all present, get_<type>(idx) for
\* 0 <= idx < size returns the idx-th element of the concatenation of the
\* pages' rows in page order, whatever the sizes of the pages.
C1_Claim ==
    (last.op = "get" /\ last.idx < collections[last.col].size /\ Intact(last.col))
        => last.out = AllRows(last.col)[last.idx + 1]

\* C2: in a collection whose page files are all present, get_<type>(size)
\* and get_<type>(size + 1) fail with an outcome that is neither a value nor
\* the None of a null row, and get_<type>(size - 1) succeeds.
C2_Claim ==
    (last.op = "get" /\ Intact(last.col)) =>
        /\ last.idx >= collections[last.col].size => last.out[1] \notin {"None", "Some"}
        /\ last.idx = collections[last.col].size - 1 => last.out[1] \in {"None", "Some"}

\* the SIZE most recently fetched keys, latest first
MostRecent(a) == SubSeq(a, 1, Min(Len(a), SIZE))

\* C3: the cache is strictly LRU in the order of the get calls: a get loads
\* from the file exactly when its key is not among the SIZE most recently
\* fetched keys, and after every get the cache holds exactly the SIZE most
\* recently fetched keys, in that order.  So a miss at capacity removes the
\* key fetched longest ago and no other.
C3_StrictLRU ==
    [][(last'.op \in {"cache_get", "get", "next"} /\ last'.key # NoKey) =>
          /\ last'.loaded = (last'.key \notin {accessed[i] : i \in 1..Len(MostRecent(accessed))})
          /\ KeysOf(cache') = MostRecent(accessed')]_vars

\* a get has missed while SIZE other keys were cached, and succeeded
C3_Witness ==
    /\ last.op = "cache_get"
    /\ last.loaded
    /\ Len(accessed) = SIZE + 1
    /\ last.key = accessed[1]
    /\ Len(cache) = SIZE

\* C4: a PageCache::get that misses and fails to load returns the error and
\* leaves the cache as it was, keys and order; the key is not cached, and a
\* further get for it runs the load again.
C4_FailedLoad ==
    [][(last'.op = "cache_get" /\ last'.out = <<"Err">>) =>
          /\ cache' = cache
          /\ last'.key \notin KeySet(cache')
          /\ LET e == collections'[last'.col].page_metas[last'.idx + 1]
             IN PageCache_get(cache', e.key, e.meta, files').loaded]_vars

\* a load has failed while the cache was full
C4_Witness ==
    /\ last.op = "cache_get"
    /\ last.out = <<"Err">>
    /\ last.loaded
    /\ Len(cache) = SIZE

\* C5: what an iterator has returned so far are the values of
\* get_<type>(0), get_<type>(1), ... in order, as a cold cache returns them;
\* its cursor is the number of items returned; it ends after exactly size
\* items; a new iterator starts at 0 whatever an earlier one consumed.
C5_IterMatchesGet ==
    iter # NoIter =>
        LET col == collections[iter.collection]
        IN /\ iter.idx = Len(yielded.items)
           /\ Len(yielded.items) <= col.size
           /\ yielded.done => Len(yielded.items) = col.size
           /\ \A i \in 1..Len(yielded.items) :
                 yielded.items[i] =
                    Collection_get(col.typ, col, PageCache_new, i - 1, files).out

\* an iterator constructed after an earlier one had returned items has run
\* to its end over three rows or more
C5_Witness ==
    /\ iter # NoIter
    /\ yielded.done
    /\ yielded.restarted
    /\ Len(yielded.items) >= 3

\* C6: decoding position idx of the PageData built by from_<type>(values)
\* returns values[idx], for every type and every idx < len(values).
C6_RoundTrip ==
    (pc = "decoded" /\ decoded.idx < Len(values)) =>
        decoded.out = values[decoded.idx + 1]

\* an empty string has been decoded from a page that also holds a null and
\* a string of more bytes than characters
C6_Witness ==
    /\ pc = "decoded"
    /\ meta.typ = "String"
    /\ decoded.idx < Len(values)
    /\ values[decoded.idx + 1] = Some(<<>>)
    /\ decoded.out = Some(<<>>)
    /\ \E j \in 1..Len(values) : values[j] = None
    /\ \E j \in 1..Len(values) : values[j] = Some(<<233, 98>>)

\* C7: reading back the file that PageWriter::write wrote, with the same
\* PageMeta, yields the page that was written: same null bitmap, offset
\* table, value bytes and type.
C7_Claim ==
    (pc = "read" /\ cut = NoCut) =>
        /\ readback[1] = "Ok"
        /\ readback[2] = Page_new(meta, data)

\* C8: Collection::new on a list of metas of two or more types fails and
\* produces no collection; when it succeeds every page has the collection's
\* type.
C8_HeterogeneousRejected ==
    newResult[1] # "NoNew" =>
        /\ Cardinality({newArgs[j].typ : j \in 1..Len(newArgs)}) >= 2 => newResult[1] = "panic"
        /\ newResult[1] = "Ok" =>
              \A j \in 1..Len(newResult[2].page_metas) :
                  newResult[2].page_metas[j].meta.typ = newResult[2].typ

\* construction from one Bool page and one Int page has failed
C8_Witness ==
    /\ newResult[1] = "panic"
    /\ {newArgs[j].typ : j \in 1..Len(newArgs)} = {"Bool", "Int"}

\* the bytes a page file must hold ahead of the value blob: the header, the
\* null bitmap the header declares and, for a String page, the offset table
DeclaredLen ==
    8 + Len(as_slice(data.nulls)) + (IF meta.typ = "String" THEN (meta.size + 1) * 8 ELSE 0)

\* C9: reading a page file that holds fewer bytes than its header, its
\* declared null bitmap and its offset table require fails.
C9_Claim ==
    (pc = "read" /\ cut # NoCut /\ cut < DeclaredLen) => readback[1] = "Err"

\* C10: the cache never holds more than SIZE pages, nor a key twice.
C10_Capacity ==
    /\ Len(cache) <= SIZE
    /\ Cardinality(KeySet(cache)) = Len(cache)

\* the cache is full after more than SIZE distinct keys were fetched through
\* a collection
C10_Witness ==
    /\ Len(cache) = SIZE
    /\ Len(accessed) > SIZE
    /\ last.op = "get"
    /\ last.loaded

\* the shape the data model gives a PageData of n rows
WellFormed(pd, n) ==
    /\ Len(pd.nulls) = n
    /\ Len(pd.offsets) = (IF pd.typ = "String" THEN n + 1 ELSE 0)

\* C11: the PageData an encoder builds from n values, and the PageData read
\* back from the untouched file of a page of n rows, both have a null bitmap
\* of exactly n bits and an offset table of n + 1 entries for a String page
\* and of none otherwise.
C11_Claim ==
    /\ pc \in {"encoded", "decoded", "written", "read"} => WellFormed(data, Len(values))
    /\ (pc = "read" /\ cut = NoCut /\ readback[1] = "Ok") =>
          WellFormed(readback[2].data, meta.size)

\* every page of collection c has the same size
Uniform(c) ==
    \A j \in 1..Len(collections[c].page_metas) :
        collections[c].page_metas[j].meta.size = collections[c].page_metas[1].meta.size

\* the pages of collection c, numbered from 0, whose range test accepts idx
Matching(c, idx) ==
    {j - 1 : j \in {k \in 1..Len(collections[c].page_metas) :
                        in_page(collections[c].page_metas[k], idx)}}

\* C12: in a collection whose pages all have size s, the ranges find_page
\* tests partition [0, size): an idx below size is accepted by exactly one
\* page, page idx div s, find_page hands that page's key to the cache and
\* returns the start offset (idx div s) * s; an idx at or past size is
\* accepted by no page and find_page returns None.
C12_UniformPartition ==
    \A c \in 1..NumCols :
        Uniform(c) =>
            \A s \in {collections[c].page_metas[1].meta.size} :
               /\ \A idx \in 0..(collections[c].size + MaxPageSize + 1) :
                     \A f \in {find_page(collections[c], cache, idx, files)} :
                        IF idx < collections[c].size
                        THEN /\ Matching(c, idx) = {idx \div s}
                             /\ f.key = <<c, idx \div s>>
                             /\ f.out[1] = "Some" => f.out[2][2] = (idx \div s) * s
                        ELSE /\ Matching(c, idx) = {}
                             /\ f.key = NoKey
                             /\ f.out = None
               /\ (last.op = "get" /\ last.col = c) =>
                     last.key = IF last.idx < collections[c].size
                                THEN <<c, last.idx \div s>> ELSE NoKey

\* a value has been fetched from the second page of a collection of two or
\* more pages of two or more rows each
C12_Witness ==
    /\ last.op = "get"
    /\ Uniform(last.col)
    /\ Len(collections[last.col].page_metas) >= 2
    /\ collections[last.col].page_metas[1].meta.size >= 2
    /\ last.idx >= collections[last.col].page_metas[1].meta.size
    /\ last.idx < collections[last.col].size
    /\ last.key = <<last.col, 1>>
    /\ last.out[1] = "Some"

\* what collection.get_<typ>(cache, idx) returns from an empty cache: the
\* page file is read and decoded by the call itself
Cold(c, idx) ==
    Collection_get(collections[c].typ, collections[c], PageCache_new, idx, files).out

\* the page a direct read of the file puts under key (id, j) of a collection
Fresh(key) ==
    Page_new(collections[key[1]].page_metas[key[2] + 1].meta,
             load_page(collections[key[1]].page_metas[key[2] + 1].meta, files)[2])

\* C13: with page files left as written, whatever was fetched before through
\* the shared cache, a get_<typ> call, made directly or by an iterator,
\* returns what it returns from an empty cache; and every cached page is the
\* page a direct read gives for the collection and page number of its own
\* key, so no collection is handed a page of another.
C13_CacheTransparent ==
    /\ last.op = "get" => last.out = Cold(last.col, last.idx)
    /\ (last.op = "next" /\ last.out[1] = "Some") => last.out[2] = Cold(last.col, last.idx)
    /\ \A i \in 1..Len(cache) :
          /\ cache[i][1][1] \in 1..NumCols
          /\ cache[i][1][2] < Len(collections[cache[i][1][1]].page_metas)
          /\ cache[i][2] = Fresh(cache[i][1])

\* a value has been returned from a cached page, without a load, while the
\* cache was full and held the same page number of another collection, after
\* more than SIZE distinct pages had been fetched
C13_Witness ==
    /\ last.op = "get"
    /\ ~last.loaded
    /\ last.out[1] = "Some"
    /\ Len(cache) = SIZE
    /\ Len(accessed) > SIZE
    /\ \E i \in 1..Len(cache) :
          cache[i][1][1] # last.col /\ cache[i][1][2] = last.key[2]

====
